---------------------------- MODULE Spec2Model ----------------------------
(***************************************************************************)
(* The adversary (actor) import of cs_misp_import/actors.py: one run of    *)
(* ActorsImporter.process_actors (delta fetch, galaxy cluster alignment,   *)
(* checkpoint handling, fan-out) and the per-actor task                    *)
(* ActorsImporter.batch_import_actors that each worker thread executes.    *)
(*                                                                         *)
(* Strings are sequences of one-character strings, so that split, upper,   *)
(* the substring test and the f-string formatting are computed the way     *)
(* the Python code computes them.                                          *)
(***************************************************************************)
EXTENDS Integers, Sequences, FiniteSets, TLC

\* ------------------------------------------------------------------------
\* Bounds of the model
\* ------------------------------------------------------------------------

\* Number of runs of process_actors a behaviour holds.
MaxRuns == 2

\* Longest list the delta fetch returns.
MaxFetch == 2

\* Wall-clock readings: the clock starts at Now0 and ticks up to MaxNow.
MaxNow == 6

\* Soft deletions of a cluster by the target system's operators.
MaxDeletes == 1

\* The wall clock's first reading (later than every last_modified_date).
Now0 == 5

\* self.misp.thread_count: the size of the worker pool.
ThreadCount == 2

\* The latest first_activity_date and last_activity_date of a record.
MaxDate == 2

\* The clamp of the lookback of line 141, in days.
MaxLookbackDays == 7300

\* ------------------------------------------------------------------------
\* Strings
\* ------------------------------------------------------------------------

\* The value of act.get('name') when the record carries no name.
None == <<"None">>

Lowers == <<"l", "y", "s", "p", "i", "d", "e", "r", "o", "w", "b", "a", "v", "g", "h">>

Uppers == <<"L", "Y", "S", "P", "I", "D", "E", "R", "O", "W", "B", "A", "V", "G", "H">>

\* str.upper() on one character.
UpperChar(c) ==
    IF \E i \in DOMAIN Lowers : Lowers[i] = c
    THEN Uppers[CHOOSE i \in DOMAIN Lowers : Lowers[i] = c]
    ELSE c

\* str.upper()
upper(s) == [i \in DOMAIN s |-> UpperChar(s[i])]

RECURSIVE SplitFrom(_, _)
SplitFrom(s, cur) ==
    IF s = <<>> THEN <<cur>>
    ELSE IF Head(s) = " " THEN <<cur>> \o SplitFrom(Tail(s), <<>>)
    ELSE SplitFrom(Tail(s), Append(cur, Head(s)))

\* str.split(" ")
split(s) == SplitFrom(s, <<>>)

\* The Python test  a in b  on two strings.
IsSubstr(a, b) ==
    \E i \in 0..(Len(b) - Len(a)) : SubSeq(b, i + 1, i + Len(a)) = a

Digits == <<"1", "2", "3", "4", "5", "6", "7", "8", "9">>

\* str(n) for the one-digit identifiers of the model.
str(n) == <<Digits[n]>>

\* ------------------------------------------------------------------------
\* The Adversary enumeration (cs_misp_import/adversary.py)
\* ------------------------------------------------------------------------

BEAR == <<"B", "E", "A", "R">>

SPIDER == <<"S", "P", "I", "D", "E", "R">>

\* [adv for adv in dir(Adversary) if "__" not in adv], in dir()'s order.
AdversaryMembers == <<BEAR, SPIDER>>

\* Adversary[code].value; applied only to a member.
AdversaryValue(code) ==
    IF code = BEAR THEN <<"R", "u", "s", "s", "i", "a">>
    ELSE <<"e", "C", "r", "i", "m", "e">>

IsAdversary(code) == \E j \in DOMAIN AdversaryMembers : AdversaryMembers[j] = code

\* ------------------------------------------------------------------------
\* The intelligence source
\* ------------------------------------------------------------------------

ICY_BEAR == <<"I", "C", "Y", " ", "B", "E", "A", "R">>

Sly_Spider == <<"S", "l", "y", " ", "S", "p", "i", "d", "e", "r">>

SHY_BEAR == <<"S", "H", "Y", " ", "B", "E", "A", "R">>

LONE == <<"L", "O", "N", "E">>

ODD_FOO == <<"O", "D", "D", " ", "F", "O", "O">>

\* The capability texts of the DetailRecords.
Below_Average == <<"B", "e", "l", "o", "w", " ", "A", "v", "e", "r", "a", "g", "e">>

Above_Average == <<"A", "b", "o", "v", "e", " ", "A", "v", "e", "r", "a", "g", "e">>

Average == <<"A", "v", "e", "r", "a", "g", "e">>

High == <<"H", "i", "g", "h">>

low == <<"l", "o", "w">>

\* details.get("capability"): None (no capability), a capability whose value
\* is the empty string, or one of the texts.
Capabilities == {None, <<>>, Below_Average, Above_Average, Average, High, low}

\* One ActorRecord joined with the DetailRecord of its id.
Rec(id, name, lmd, det, first, last, cap) ==
    [id |-> id, name |-> name, lmd |-> lmd, det |-> det,
     first_activity_date |-> first, last_activity_date |-> last,
     capability |-> cap]

(***************************************************************************)
(* The ActorRecords the source can return, each joined with what           *)
(* get_actor_entities returns for its id: det = "full" (a DetailRecord     *)
(* with a description), "nodesc" (a DetailRecord without one) or "none"    *)
(* (no DetailRecord).  lmd = 0 stands for an absent last_modified_date,    *)
(* and a date of 0 for an absent first_ or last_activity_date.             *)
(***************************************************************************)
Universe ==
    { Rec(1, ICY_BEAR,   3, "full",   2, 1, High),
      Rec(2, Sly_Spider, 1, "full",   1, 0, None),
      Rec(3, LONE,       2, "full",   0, 2, low),
      Rec(4, ODD_FOO,    0, "full",   0, 0, None),
      Rec(5, None,       2, "full",   1, 1, Average),
      Rec(6, SHY_BEAR,   2, "nodesc", 1, 2, None) }

\* The lists get_actors can return.
FetchLists == UNION { [1..n -> Universe] : n \in 0..MaxFetch }

\* One well-formed actor with every combination of the fields the Record
\* Mapper derives the timestamps and the threat level from.
MapperUniverse ==
    { Rec(1, ICY_BEAR, 3, "full", f, l, c) :
        f \in 0..MaxDate, l \in 0..MaxDate, c \in Capabilities }

\* The lists get_actors returns to the runs that exercise the Record Mapper.
MapperLists == { <<r>> : r \in MapperUniverse }

\* ------------------------------------------------------------------------
\* State
\* ------------------------------------------------------------------------

VARIABLES
    now,        \* the wall clock (datetime.today(), datetime.now())
    ckpt,       \* the file actors_timestamp_filename: [k, v]
    clusters,   \* the threat-actor galaxy of the target system, by cluster id
    events,     \* event.info of every event the target system holds
    deletes,    \* soft deletions so far
    source,     \* what get_actors returns at present
    runNo,      \* the number of the current run
    pc,         \* where process_actors stands
    cause,      \* why the run ended by an exception ("" otherwise)
    already,    \* events_already_imported: the keys of the Dedup Index
    actors,     \* the list get_actors returned to this run
    actor_map,  \* the actor-to-cluster map of this run
    todo,       \* what is left of the list the loop of line 173 walks
    rtodo,      \* what is left of the list the loop of line 203 walks
    restores,   \* the restore calls of this run, in order
    created,    \* the add_galaxy_cluster calls of this run
    wrote,      \* whether this run wrote the checkpoint file
    sampled,    \* time_send_request of this run (0 before line 216)
    tasks,      \* the futures of this run: [pc, calls, nowstamp, ret, event]
    start_get_events,  \* the local of lines 140 and 214 (0 before line 140)
    merges      \* the ids of the clusters line 163 merged elements into

global == <<now, ckpt, clusters, events, deletes, source, runNo>>

local == <<pc, cause, already, actors, actor_map, todo, rtodo, restores,
           created, wrote, sampled, tasks>>

\* The locals of process_actors the alignment of lines 140-163 sets.
fetch == <<start_get_events, merges>>

vars == <<now, ckpt, clusters, events, deletes, source, runNo, pc, cause,
          already, actors, actor_map, todo, rtodo, restores, created, wrote,
          sampled, tasks, start_get_events, merges>>

\* A dict with no key.
EmptyMap == [x \in {} |-> 0]

\* The checkpoint file does not exist.
NoFile == [k |-> "absent", v |-> 0]

\* The checkpoint file holds str(n).
IntFile(n) == [k |-> "int", v |-> n]

\* ------------------------------------------------------------------------
\* batch_import_actors: the pure parts
\* ------------------------------------------------------------------------

\* Line 73 raises: AttributeError (no name), IndexError (one token) or
\* KeyError (the second token is no member of Adversary).
Line73Raises(act) ==
    \/ act.name = None
    \/ Len(split(act.name)) < 2
    \/ ~IsAdversary(upper(split(act.name)[2]))

\* info_str of line 74, the key the skip check of line 77 looks up.
info_str(act) ==
    <<"A", "D", "V", "-">> \o str(act.id) \o <<" ">> \o act.name
        \o <<" ", "(">> \o AdversaryValue(upper(split(act.name)[2])) \o <<")">>

\* The key line 89 writes: already[actor_name] = True.
written_key(act) == act.name

\* max_tries of line 92.
max_tries == 3

\* A retry loop that gives up at the first failed attempt.
LoopContinues_gives_up(calls) ==
    Len(calls) < max_tries /\ calls[Len(calls)] # "err"

\* The retry loop of lines 93-100 takes another turn: range(max_tries), and
\* no statement leaves the loop early.
LoopContinues(calls) == Len(calls) < max_tries

\* success of line 96 after the loop.
Succeeded(calls) == \E j \in DOMAIN calls : calls[j] = "ok"

\* ------------------------------------------------------------------------
\* create_event_from_actor: event.info
\* ------------------------------------------------------------------------

RECURSIVE RegionFrom(_, _, _)
\* The loop of lines 288-290: the last member that is a substring of the
\* branch wins.
RegionFrom(j, branch, region) ==
    IF j > Len(AdversaryMembers) THEN region
    ELSE RegionFrom(j + 1, branch,
            IF IsSubstr(AdversaryMembers[j], branch)
            THEN <<" ", "(">> \o AdversaryValue(AdversaryMembers[j]) \o <<")">>
            ELSE region)

\* An event.info that leaves the region suffix out.
event_info_no_region(act) ==
    <<"A", "D", "V", "-">> \o str(act.id) \o <<" ">> \o act.name

\* event.info of line 291, for an actor whose name has two tokens.
event_info(act) ==
    <<"A", "D", "V", "-">> \o str(act.id) \o <<" ">> \o act.name
        \o RegionFrom(1, upper(split(act.name)[2]), <<>>)

\* The Python value None where an integer is expected.
NoneValue == [none |-> TRUE, v |-> 0]

\* The Python integer n.
IntValue(n) == [none |-> FALSE, v |-> n]

\* actor.get(key) of lines 432-433 on a date field: None when the key is
\* absent.
Get(date) == IF date = 0 THEN NoneValue ELSE IntValue(date)

\* if x: on an integer or None.
Truthy(x) == ~x.none /\ x.v # 0

\* Lines 424-435: actor_att["first_seen"] and actor_att["last_seen"].
seen(actor) ==
    LET first == actor.first_activity_date
        last == actor.last_activity_date
        swap == last < first
        first1 == IF swap THEN Get(actor.last_activity_date) ELSE IntValue(first)
        last1 == IF swap THEN Get(actor.first_activity_date) ELSE IntValue(last)
    IN  [first_seen |-> IF first1 = IntValue(0) THEN last1 ELSE first1,
         last_seen |-> last1]

BELOW == <<"B", "E", "L", "O", "W">>

LOW == <<"L", "O", "W">>

ABOVE == <<"A", "B", "O", "V", "E">>

HIGH == <<"H", "I", "G", "H">>

\* Lines 334-349: event.threat_level_id; 0 where the attribute is never
\* assigned.
threat_level_id(cap) ==
    IF cap = None \/ cap = <<>> THEN 0
    ELSE IF IsSubstr(BELOW, upper(cap)) \/ IsSubstr(LOW, upper(cap)) THEN 3
    ELSE IF IsSubstr(ABOVE, upper(cap)) \/ IsSubstr(HIGH, upper(cap)) THEN 1
    ELSE 2

\* Lines 296-299: the tag of the event: the id of the actor's cluster in
\* the map (its persistent tag_name), or 0 for the tag made of the raw name.
cluster_tag(actor, map) ==
    IF upper(actor.name) \in DOMAIN map THEN map[upper(actor.name)].id ELSE 0

\* No event: the task has not reached line 78.
NoEvent ==
    [info |-> <<>>, tag |-> 0, threat_level_id |-> 0,
     first_seen |-> NoneValue, last_seen |-> NoneValue]

\* create_event_from_actor, for an actor whose name has two tokens.
create_event_from_actor(actor, map) ==
    [info |-> event_info(actor),
     tag |-> cluster_tag(actor, map),
     threat_level_id |-> threat_level_id(actor.capability),
     first_seen |-> seen(actor).first_seen,
     last_seen |-> seen(actor).last_seen]

\* ------------------------------------------------------------------------
\* process_actors: the pure parts
\* ------------------------------------------------------------------------

\* actors_days_before, the lookback the caller asks for, in days.
DaysBefore == {2, MaxLookbackDays + 1}

\* min(a, b)
min(a, b) == IF a < b THEN a ELSE b

\* Lines 140-142: start_get_events, with the clock counting days.
Lookback(days, clock) == clock - min(days, MaxLookbackDays)

\* Lines 149-163: the clusters add_cluster_elements is called on: those of
\* the map whose cs_id is the id of a DetailRecord in act_detail, which
\* holds the details of the fetched actors that are not in the map.
Merges(acts, map) ==
    { map[x].id : x \in
        { y \in DOMAIN map :
            \E i \in DOMAIN acts :
                /\ acts[i].name \notin DOMAIN map
                /\ acts[i].det # "none"
                /\ acts[i].id = map[y].cs_id } }

\* get_actor_galaxy_map: the clusters of the galaxy by the upper-cased actor
\* name; of two clusters of one value the later one is kept.
ActorGalaxyMap ==
    [v \in {clusters[j].value : j \in DOMAIN clusters} |->
        LET j == CHOOSE j \in DOMAIN clusters :
                    /\ clusters[j].value = v
                    /\ \A h \in DOMAIN clusters : clusters[h].value = v => h <= j
        IN [id |-> j, deleted |-> clusters[j].deleted, cs_id |-> clusters[j].cs_id]]

\* The test of lines 149 and 173: a["name"] not in actor_map.
NotMapped(act, map) == act.name \notin DOMAIN map

\* [a for a in actors if a["name"] not in actor_map], line 173.
ToCreate(acts, map) == SelectSeq(acts, LAMBDA a : NotMapped(a, map))

\* The body of the loop of line 173 raises: KeyError at line 186 (no
\* description in details) or AttributeError at line 187 (no name).
CreateRaises(act) == act.det # "full" \/ act.name = None

\* A map key that keeps the case of the actor's name.
MapKey_raw(act) == act.name

\* The key of line 192.
MapKey(act) == upper(act.name)

\* dict assignment m[key] = e.
Put(m, key, e) == [x \in DOMAIN m \cup {key} |-> IF x = key THEN e ELSE m[x]]

RECURSIVE SeqOfIds(_)
\* The cluster ids of a set, in ascending order.
SeqOfIds(S) ==
    IF S = {} THEN <<>>
    ELSE LET m == CHOOSE x \in S : \A y \in S : x <= y
         IN <<m>> \o SeqOfIds(S \ {m})

\* A restore list that ignores the deleted flag.
ToRestore_all(map) == SeqOfIds({map[x].id : x \in DOMAIN map})

\* [a["id"] for a in actor_map.values() if a["deleted"]], line 203.
ToRestore(map) == SeqOfIds({map[x].id : x \in {y \in DOMAIN map : map[y].deleted}})

\* The futures of line 226, one per fetched actor.
NewTasks(acts) ==
    [i \in DOMAIN acts |->
        [pc |-> "queued", calls |-> <<>>, nowstamp |-> 0, ret |-> "none",
         event |-> NoEvent]]

\* ------------------------------------------------------------------------
\* Initial state
\* ------------------------------------------------------------------------

Init ==
    /\ now = Now0
    /\ ckpt = NoFile
    /\ clusters = <<>>
    /\ events = {}
    /\ deletes = 0
    /\ source \in FetchLists
    /\ runNo = 1
    /\ pc = "idle"
    /\ cause = ""
    /\ already = {}
    /\ actors = <<>>
    /\ actor_map = EmptyMap
    /\ todo = <<>>
    /\ rtodo = <<>>
    /\ restores = <<>>
    /\ created = 0
    /\ wrote = FALSE
    /\ sampled = 0
    /\ tasks = <<>>
    /\ start_get_events = 0
    /\ merges = {}

\* A checkpoint file whose text is no integer.
BadFile == [k |-> "bad", v |-> 0]

\* A checkpoint file with no text.
EmptyFile == [k |-> "empty", v |-> 0]

\* The checkpoint files a run can find that no run of the program wrote.
ForeignFiles == {BadFile, EmptyFile}

\* The lists get_actors returns to the runs that start from such a file.
ShortLists == { l \in FetchLists : Len(l) < MaxFetch }

\* The runs that find a checkpoint file the program did not write.
InitForeign ==
    /\ now = Now0
    /\ ckpt \in ForeignFiles
    /\ clusters = <<>>
    /\ events = {}
    /\ deletes = 0
    /\ source \in ShortLists
    /\ runNo = 1
    /\ pc = "idle"
    /\ cause = ""
    /\ already = {}
    /\ actors = <<>>
    /\ actor_map = EmptyMap
    /\ todo = <<>>
    /\ rtodo = <<>>
    /\ restores = <<>>
    /\ created = 0
    /\ wrote = FALSE
    /\ sampled = 0
    /\ tasks = <<>>
    /\ start_get_events = 0
    /\ merges = {}

\* The runs that exercise the Record Mapper: one fetched actor.
InitMapper ==
    /\ now = Now0
    /\ ckpt = NoFile
    /\ clusters = <<>>
    /\ events = {}
    /\ deletes = 0
    /\ source \in MapperLists
    /\ runNo = 1
    /\ pc = "idle"
    /\ cause = ""
    /\ already = {}
    /\ actors = <<>>
    /\ actor_map = EmptyMap
    /\ todo = <<>>
    /\ rtodo = <<>>
    /\ restores = <<>>
    /\ created = 0
    /\ wrote = FALSE
    /\ sampled = 0
    /\ tasks = <<>>
    /\ start_get_events = 0
    /\ merges = {}

\* ------------------------------------------------------------------------
\* The environment
\* ------------------------------------------------------------------------

\* Time passes between two runs.
Tick ==
    /\ pc = "idle"
    /\ now < MaxNow
    /\ now' = now + 1
    /\ UNCHANGED <<ckpt, clusters, events, deletes, source, runNo>>
    /\ UNCHANGED local
    /\ UNCHANGED fetch

\* The source's content changes between two runs.
SourceUpdate ==
    /\ pc = "idle"
    /\ \E l \in FetchLists : l # source /\ source' = l
    /\ UNCHANGED <<now, ckpt, clusters, events, deletes, runNo>>
    /\ UNCHANGED local
    /\ UNCHANGED fetch

\* An operator of the target system soft-deletes a cluster between two runs.
SoftDelete ==
    /\ pc = "idle"
    /\ deletes < MaxDeletes
    /\ \E j \in DOMAIN clusters :
          /\ ~clusters[j].deleted
          /\ clusters' = [clusters EXCEPT ![j].deleted = TRUE]
    /\ deletes' = deletes + 1
    /\ UNCHANGED <<now, ckpt, events, source, runNo>>
    /\ UNCHANGED local
    /\ UNCHANGED fetch

\* ------------------------------------------------------------------------
\* The caller and __init__
\* ------------------------------------------------------------------------

\* The caller seeds the Dedup Index from the events the target system holds.
SeedIndex ==
    /\ pc = "idle"
    /\ already' = events
    /\ pc' = "seeded"
    /\ UNCHANGED global
    /\ UNCHANGED <<cause, actors, actor_map, todo, rtodo, restores, created,
                   wrote, sampled, tasks>>
    /\ UNCHANGED fetch

\* The run ends by an exception raised in the main thread.
Abort(why) ==
    /\ pc' = "aborted"
    /\ cause' = why

\* __init__: get_organisation answers.
ConstructOk ==
    /\ pc = "seeded"
    /\ pc' = "constructed"
    /\ UNCHANGED global
    /\ UNCHANGED <<cause, already, actors, actor_map, todo, rtodo, restores,
                   created, wrote, sampled, tasks>>
    /\ UNCHANGED fetch

\* __init__: get_organisation raises.
ConstructFail ==
    /\ pc = "seeded"
    /\ Abort("org")
    /\ UNCHANGED global
    /\ UNCHANGED <<already, actors, actor_map, todo, rtodo, restores, created,
                   wrote, sampled, tasks>>
    /\ UNCHANGED fetch

\* ------------------------------------------------------------------------
\* process_actors
\* ------------------------------------------------------------------------

\* Where the call of get_actors stands in process_actors (line 146).
FetchAt == "constructed"

\* Lines 140-147: get_actors answers.
FetchOk ==
    /\ pc = FetchAt
    /\ \E days \in DaysBefore : start_get_events' = Lookback(days, now)
    /\ actors' = source
    /\ pc' = "fetched"
    /\ UNCHANGED global
    /\ UNCHANGED <<cause, already, actor_map, todo, rtodo, restores, created,
                   wrote, sampled, tasks>>
    /\ UNCHANGED merges

\* get_actors called where line 218 once called it, after the alignment, and
\* raising there.
FetchFail_after_alignment ==
    /\ pc = "ready"
    /\ Abort("fetch")
    /\ UNCHANGED global
    /\ UNCHANGED <<already, actors, actor_map, todo, rtodo, restores, created,
                   wrote, sampled, tasks>>
    /\ UNCHANGED fetch

\* Lines 140-147: get_actors raises.
FetchFail ==
    /\ pc = FetchAt
    /\ \E days \in DaysBefore : start_get_events' = Lookback(days, now)
    /\ Abort("fetch")
    /\ UNCHANGED global
    /\ UNCHANGED <<already, actors, actor_map, todo, rtodo, restores, created,
                   wrote, sampled, tasks>>
    /\ UNCHANGED merges

\* Lines 148-173: the map is read, and the list of the actors to create a
\* cluster for is built.
GetMap ==
    /\ pc = "fetched"
    /\ actor_map' = ActorGalaxyMap
    /\ merges' = Merges(actors, ActorGalaxyMap)
    /\ todo' = ToCreate(actors, ActorGalaxyMap)
    /\ pc' = "create"
    /\ UNCHANGED global
    /\ UNCHANGED <<cause, already, actors, rtodo, restores, created, wrote,
                   sampled, tasks>>
    /\ UNCHANGED start_get_events

\* Lines 173-201: one turn of the loop that creates the missing clusters.
CreateStep ==
    /\ pc = "create"
    /\ todo # <<>>
    /\ LET act == Head(todo) IN
         IF CreateRaises(act)
         THEN /\ Abort("create")
              /\ UNCHANGED <<clusters, actor_map, todo, created>>
         ELSE /\ clusters' = Append(clusters,
                     [value |-> upper(act.name), cs_id |-> act.id, deleted |-> FALSE])
              /\ actor_map' = Put(actor_map, MapKey(act),
                     [id |-> Len(clusters) + 1, deleted |-> FALSE, cs_id |-> act.id])
              /\ todo' = Tail(todo)
              /\ created' = created + 1
              /\ UNCHANGED <<pc, cause>>
    /\ UNCHANGED <<now, ckpt, events, deletes, source, runNo>>
    /\ UNCHANGED <<already, actors, rtodo, restores, wrote, sampled, tasks>>
    /\ UNCHANGED fetch

\* Line 203: the list of the clusters to restore is built.
CreateDone ==
    /\ pc = "create"
    /\ todo = <<>>
    /\ rtodo' = ToRestore(actor_map)
    /\ pc' = "restore"
    /\ UNCHANGED global
    /\ UNCHANGED <<cause, already, actors, actor_map, todo, restores, created,
                   wrote, sampled, tasks>>
    /\ UNCHANGED fetch

\* Lines 203-205: one restore call.
RestoreStep ==
    /\ pc = "restore"
    /\ rtodo # <<>>
    /\ restores' = Append(restores, Head(rtodo))
    /\ clusters' = [clusters EXCEPT ![Head(rtodo)].deleted = FALSE]
    /\ rtodo' = Tail(rtodo)
    /\ UNCHANGED <<now, ckpt, events, deletes, source, runNo>>
    /\ UNCHANGED <<pc, cause, already, actors, actor_map, todo, created, wrote,
                   sampled, tasks>>
    /\ UNCHANGED fetch

\* Lines 207-208: alignment is complete.
RestoreDone ==
    /\ pc = "restore"
    /\ rtodo = <<>>
    /\ pc' = "aligned"
    /\ UNCHANGED global
    /\ UNCHANGED <<cause, already, actors, actor_map, todo, rtodo, restores,
                   created, wrote, sampled, tasks>>
    /\ UNCHANGED fetch

\* Lines 210-214: the checkpoint file is read; int(line) raises ValueError on
\* a line that is no integer.
ReadCheckpoint ==
    /\ pc = "aligned"
    /\ IF ckpt.k = "bad"
       THEN Abort("checkpoint") /\ UNCHANGED start_get_events
       ELSE /\ pc' = "ready"
            /\ start_get_events' = IF ckpt.k = "int" THEN ckpt.v ELSE start_get_events
            /\ UNCHANGED cause
    /\ UNCHANGED global
    /\ UNCHANGED <<already, actors, actor_map, todo, rtodo, restores, created,
                   wrote, sampled, tasks>>
    /\ UNCHANGED merges

\* The branch of line 219 is taken: the delta is empty.
ZeroDelta(acts) == Len(acts) = 0

\* A fast-forward that writes the second before the sampled time.
FastForward_stale(t) == IntFile(t - 1)

\* What line 221 writes.
FastForward(t) == IntFile(t)

\* Lines 216-228: the clock is sampled; an empty delta fast-forwards the
\* checkpoint, any other is fanned out to the worker pool.
Dispatch ==
    /\ pc = "ready"
    /\ sampled' = now
    /\ IF ZeroDelta(actors)
       THEN /\ ckpt' = FastForward(now)
            /\ wrote' = TRUE
            /\ pc' = "done"
            /\ UNCHANGED tasks
       ELSE /\ tasks' = NewTasks(actors)
            /\ pc' = "fanout"
            /\ UNCHANGED <<ckpt, wrote>>
    /\ UNCHANGED <<now, clusters, events, deletes, source, runNo>>
    /\ UNCHANGED <<cause, already, actors, actor_map, todo, rtodo, restores, created>>
    /\ UNCHANGED fetch

\* fut.result() of line 230 re-raises what the task raised.
ResultRaises(t) == t.ret = "exc"

\* Lines 229-234: the pool has drained and every result is collected.
Join ==
    /\ pc = "fanout"
    /\ \A i \in DOMAIN tasks : tasks[i].pc = "done"
    /\ IF \E i \in DOMAIN tasks : ResultRaises(tasks[i])
       THEN pc' = "raised" /\ cause' = "task"
       ELSE pc' = "done" /\ UNCHANGED cause
    /\ UNCHANGED global
    /\ UNCHANGED <<already, actors, actor_map, todo, rtodo, restores, created,
                   wrote, sampled, tasks>>
    /\ UNCHANGED fetch

\* The run is over; the next one starts from a fresh importer.
EndRun ==
    /\ pc \in {"done", "aborted", "raised"}
    /\ runNo < MaxRuns
    /\ runNo' = runNo + 1
    /\ pc' = "idle"
    /\ cause' = ""
    /\ already' = {}
    /\ actors' = <<>>
    /\ actor_map' = EmptyMap
    /\ todo' = <<>>
    /\ rtodo' = <<>>
    /\ restores' = <<>>
    /\ created' = 0
    /\ wrote' = FALSE
    /\ sampled' = 0
    /\ tasks' = <<>>
    /\ start_get_events' = 0
    /\ merges' = {}
    /\ UNCHANGED <<now, ckpt, clusters, events, deletes, source>>

\* ------------------------------------------------------------------------
\* batch_import_actors, one worker thread per task
\* ------------------------------------------------------------------------

\* The tasks a worker thread is executing.
Running == {i \in DOMAIN tasks : tasks[i].pc \notin {"queued", "done"}}

\* The task returns or raises.
Finish(i, how) == [tasks EXCEPT ![i].pc = "done", ![i].ret = how]

\* A skip test that looks up the key line 89 writes.
Skips_by_name(act, index) == written_key(act) \in index

\* The test of line 77 sends the task to the skip branch of line 123.
Skips(act, index) == info_str(act) \in index

\* Lines 72-77: a free worker takes the task from the queue (first in, first
\* out), builds the display key and looks it up in the Dedup Index.
TaskStart(i) ==
    /\ pc = "fanout"
    /\ tasks[i].pc = "queued"
    /\ Cardinality({j \in 1..(i - 1) : tasks[j].pc = "queued"})
          < ThreadCount - Cardinality(Running)
    /\ tasks' = IF Line73Raises(actors[i]) THEN Finish(i, "exc")
                ELSE IF Skips(actors[i], already) THEN Finish(i, "false")
                ELSE [tasks EXCEPT ![i].pc = "map"]
    /\ UNCHANGED global
    /\ UNCHANGED <<pc, cause, already, actors, actor_map, todo, rtodo, restores,
                   created, wrote, sampled>>
    /\ UNCHANGED fetch

\* A task that registers its actor in the actor-to-cluster map under the raw
\* name while it maps the event.
TaskMap_registers(i) ==
    /\ pc = "fanout"
    /\ tasks[i].pc = "map"
    /\ already' = already \cup {written_key(actors[i])}
    /\ actor_map' = Put(actor_map, actors[i].name,
           [id |-> cluster_tag(actors[i], actor_map), deleted |-> FALSE,
            cs_id |-> actors[i].id])
    /\ tasks' = [tasks EXCEPT ![i].pc = "submit",
                              ![i].event = create_event_from_actor(actors[i], actor_map)]
    /\ UNCHANGED global
    /\ UNCHANGED <<pc, cause, actors, todo, rtodo, restores, created, wrote,
                   sampled>>
    /\ UNCHANGED fetch

\* Lines 78-89: the event is mapped and tagged, and the actor is marked in
\* the Dedup Index.
TaskMap(i) ==
    /\ pc = "fanout"
    /\ tasks[i].pc = "map"
    /\ already' = already \cup {written_key(actors[i])}
    /\ tasks' = [tasks EXCEPT ![i].pc = "submit",
                              ![i].event = create_event_from_actor(actors[i], actor_map)]
    /\ UNCHANGED global
    /\ UNCHANGED <<pc, cause, actors, actor_map, todo, rtodo, restores, created,
                   wrote, sampled>>
    /\ UNCHANGED fetch

\* Lines 93-102: one turn of the retry loop; add_event answers ("ok") or
\* raises ("err").
TaskSubmit(i) ==
    /\ pc = "fanout"
    /\ tasks[i].pc = "submit"
    /\ \E outcome \in {"ok", "err"} :
          LET calls == Append(tasks[i].calls, outcome) IN
          /\ events' = IF outcome = "ok" THEN events \cup {tasks[i].event.info}
                       ELSE events
          /\ tasks' = [tasks EXCEPT ![i].calls = calls,
                                    ![i].pc = IF LoopContinues(calls) THEN "submit"
                                              ELSE "tsread"]
    /\ UNCHANGED <<now, ckpt, clusters, deletes, source, runNo>>
    /\ UNCHANGED <<pc, cause, already, actors, actor_map, todo, rtodo, restores,
                   created, wrote, sampled>>
    /\ UNCHANGED fetch

\* Lines 105-115: nowstamp from the actor's last_modified_date, the file and
\* the clock; 0 stands for None.  A missing file reads as the integer 0; the
\* text of an empty or malformed file makes int() raise ValueError.
Nowstamp(lmd, file, clock) ==
    IF file.k \in {"empty", "bad"} THEN clock
    ELSE IF lmd > (IF file.k = "absent" THEN 0 ELSE file.v) THEN lmd
    ELSE 0

\* The test of line 104.
HasLmd(act) == act.lmd # 0

\* Lines 104-116: the checkpoint file is read and compared.
TaskReadTs(i) ==
    /\ pc = "fanout"
    /\ tasks[i].pc = "tsread"
    /\ LET n == IF HasLmd(actors[i]) THEN Nowstamp(actors[i].lmd, ckpt, now) ELSE 0 IN
          tasks' = IF n = 0 THEN Finish(i, "true")
                   ELSE [tasks EXCEPT ![i].pc = "openw", ![i].nowstamp = n]
    /\ UNCHANGED global
    /\ UNCHANGED <<pc, cause, already, actors, actor_map, todo, rtodo, restores,
                   created, wrote, sampled>>
    /\ UNCHANGED fetch

\* Line 117: open(..., 'w') truncates the file; v keeps the number the file
\* held last.
TaskOpenW(i) ==
    /\ pc = "fanout"
    /\ tasks[i].pc = "openw"
    /\ ckpt' = [k |-> "empty", v |-> ckpt.v]
    /\ tasks' = [tasks EXCEPT ![i].pc = "flush"]
    /\ UNCHANGED <<now, clusters, events, deletes, source, runNo>>
    /\ UNCHANGED <<pc, cause, already, actors, actor_map, todo, rtodo, restores,
                   created, wrote, sampled>>
    /\ UNCHANGED fetch

\* What line 118 writes.
Advance(nowstamp) == IntFile(nowstamp + 1)

\* Lines 118-119: the text is written when the file is closed.
TaskFlush(i) ==
    /\ pc = "fanout"
    /\ tasks[i].pc = "flush"
    /\ ckpt' = Advance(tasks[i].nowstamp)
    /\ wrote' = TRUE
    /\ tasks' = Finish(i, "true")
    /\ UNCHANGED <<now, clusters, events, deletes, source, runNo>>
    /\ UNCHANGED <<pc, cause, already, actors, actor_map, todo, rtodo, restores,
                   created, sampled>>
    /\ UNCHANGED fetch

\* One step of one worker thread.
Task ==
    \E i \in DOMAIN tasks :
        \/ TaskStart(i)
        \/ TaskMap(i)
        \/ TaskSubmit(i)
        \/ TaskReadTs(i)
        \/ TaskOpenW(i)
        \/ TaskFlush(i)

\* ------------------------------------------------------------------------
\* Specifications
\* ------------------------------------------------------------------------

\* The steps of a run whose organisation lookup and delta fetch answer.
Steps ==
    \/ SeedIndex
    \/ ConstructOk
    \/ FetchOk
    \/ GetMap
    \/ CreateStep
    \/ CreateDone
    \/ RestoreStep
    \/ RestoreDone
    \/ ReadCheckpoint
    \/ Dispatch
    \/ Task
    \/ Join
    \/ EndRun

\* The fatal errors of a run.
Fatal ==
    \/ ConstructFail
    \/ FetchFail

Next ==
    \/ Tick
    \/ SourceUpdate
    \/ SoftDelete
    \/ Fatal
    \/ Steps

\* Any number of runs against a source and a target system that change
\* between the runs.
Spec == Init /\ [][Next]_vars

\* Runs that all get past the delta fetch, against a source that never
\* changes.
NextIdem ==
    \/ Tick
    \/ SoftDelete
    \/ Steps

SpecIdem == Init /\ [][NextIdem]_vars

\* Runs of one well-formed actor, over every input of the Record Mapper.
SpecMapper == InitMapper /\ [][NextIdem]_vars

\* Runs that start from a checkpoint file the program did not write.
SpecForeign == InitForeign /\ [][NextIdem]_vars

\* ------------------------------------------------------------------------
\* Properties
\* ------------------------------------------------------------------------

\* The run is over, normally or by an exception.
RunOver == pc \in {"done", "aborted", "raised"}

\* The task has left the retry loop of lines 93-100.
PastLoop(t) == t.pc \in {"tsread", "openw", "flush", "done"}

\* C1: every write to the persisted checkpoint, by a task or by the
\* fast-forward of an empty delta, stores a value greater than or equal to
\* the value that was persisted before it.
C1_CheckpointNeverDecreases ==
    [][ckpt'.k = "int" => ckpt'.v >= ckpt.v]_vars

\* C2 (as stated): with an unchanged source and the Dedup Index seeded from
\* the first run's output, no createEvent call is made in the second run.
C2_SecondRunCallsNothing ==
    runNo >= 2 => \A i \in DOMAIN tasks : tasks[i].calls = <<>>

\* C2 (amended): with an unchanged source and the Dedup Index seeded from the
\* first run's output, a later run makes no createEvent call for an actor
\* whose event that output holds.
C2_SecondRunSkipsImported ==
    runNo >= 2 =>
        \A i \in DOMAIN tasks :
            (~Line73Raises(actors[i]) /\ event_info(actors[i]) \in already)
                => tasks[i].calls = <<>>

\* An actor the first run imported is fetched again and its task is over.
C2_Witness ==
    /\ runNo = 2
    /\ pc = "done"
    /\ \E i \in DOMAIN tasks :
          /\ ~Line73Raises(actors[i])
          /\ event_info(actors[i]) \in already
          /\ tasks[i].pc = "done"

\* C3: once a createEvent attempt of a task has succeeded, the task makes no
\* further createEvent call.
C3_NoCallAfterSuccess ==
    \A i \in DOMAIN tasks :
        \A j \in DOMAIN tasks[i].calls :
            tasks[i].calls[j] = "ok" => j = Len(tasks[i].calls)

\* C4: a submission that fails on every attempt is attempted exactly 3 times
\* and then dropped: its task goes on to return, every other task still runs
\* to its end, and the run does not end by an exception on its account.
C4_DroppedAfterThreeAttempts ==
    /\ \A i \in DOMAIN tasks :
          /\ Len(tasks[i].calls) <= 3
          /\ ( /\ PastLoop(tasks[i])
                /\ tasks[i].calls # <<>>
                /\ ~Succeeded(tasks[i].calls) )
                => (Len(tasks[i].calls) = 3 /\ tasks[i].ret # "exc")
    /\ (RunOver /\ tasks # <<>>) => \A i \in DOMAIN tasks : tasks[i].pc = "done"
    /\ pc = "raised" => \E i \in DOMAIN tasks : Line73Raises(actors[i])

\* A run of two tasks has ended normally although every attempt of one of
\* its submissions failed.
C4_Witness ==
    /\ pc = "done"
    /\ Len(tasks) = 2
    /\ \E i \in DOMAIN tasks :
          tasks[i].calls = <<"err", "err", "err">> /\ tasks[i].ret = "true"

\* C5: after the dispatch an exception raised inside one task is not fatal:
\* process_actors returns normally once every task has completed.
C5_TaskFailureNotFatal ==
    (RunOver /\ \E i \in DOMAIN tasks : tasks[i].ret = "exc") => pc = "done"

\* C6: in a run whose delta fetch returned no record, no task is dispatched,
\* and the run ends with the checkpoint file holding the wall-clock time the
\* run sampled.
C6_ZeroDeltaFastForward ==
    /\ (actors = <<>> /\ pc # "idle") => tasks = <<>>
    /\ (RunOver /\ cause \notin {"org", "fetch"} /\ actors = <<>>)
          => (pc = "done" /\ sampled = now /\ ckpt = IntFile(sampled))

\* A second run with an empty delta has moved the checkpoint to the clock.
C6_Witness ==
    /\ runNo = 2
    /\ pc = "done"
    /\ actors = <<>>
    /\ now = MaxNow
    /\ ckpt = IntFile(MaxNow)

\* C7: a task that finds its actor's display key in the Dedup Index maps no
\* event, makes no createEvent call, leaves the checkpoint file and the
\* Dedup Index as they are, and reports the actor as not imported.
C7_SkipLeavesAllUnchanged ==
    [][\A i \in DOMAIN tasks :
          ( /\ pc = "fanout"
            /\ tasks[i].pc = "queued"
            /\ tasks'[i].pc # "queued"
            /\ ~Line73Raises(actors[i])
            /\ info_str(actors[i]) \in already )
          => ( /\ tasks'[i] = [pc |-> "done", calls |-> <<>>, nowstamp |-> 0,
                               ret |-> "false", event |-> NoEvent]
               /\ ckpt' = ckpt
               /\ already' = already
               /\ events' = events )]_vars

\* A task has skipped its actor.
C7_Witness ==
    \E i \in DOMAIN tasks :
        /\ tasks[i].ret = "false"
        /\ info_str(actors[i]) \in already

\* C8: no two clusters of the galaxy have the same value.
C8_ClusterValuesUnique ==
    \A j, h \in DOMAIN clusters :
        clusters[j].value = clusters[h].value => j = h

\* The number of restore calls of this run for cluster id c.
RestoreCalls(c) == Cardinality({j \in DOMAIN restores : restores[j] = c})

\* C9: a restore call is made only for a map entry flagged deleted; once the
\* alignment is over, and so before any task exists, every such entry has
\* had exactly one restore call and every other entry none.
C9_OneRestorePerDeletedEntry ==
    /\ \A j \in DOMAIN restores :
          \E x \in DOMAIN actor_map :
              actor_map[x].id = restores[j] /\ actor_map[x].deleted
    /\ (pc \in {"aligned", "ready", "fanout", "done", "raised"} \/ tasks # <<>>)
          => \A x \in DOMAIN actor_map :
                RestoreCalls(actor_map[x].id) = IF actor_map[x].deleted THEN 1 ELSE 0

\* A task has run in a run that restored a cluster.
C9_Witness ==
    /\ Len(restores) = 1
    /\ \E x \in DOMAIN actor_map : actor_map[x].deleted
    /\ \E i \in DOMAIN tasks : tasks[i].pc = "done"

\* C10: a run that ends because the organisation could not be resolved or
\* the delta could not be fetched has created, merged and restored no
\* cluster, submitted no event and not written the checkpoint file.
C10_FatalAbortHasNoEffect ==
    (pc = "aborted" /\ cause \in {"org", "fetch"})
        => /\ created = 0
           /\ actor_map = EmptyMap
           /\ restores = <<>>
           /\ tasks = <<>>
           /\ ~wrote

\* The second run could not fetch the delta.
C10_Witness ==
    /\ pc = "aborted"
    /\ cause = "fetch"
    /\ runNo = 2
    /\ clusters # <<>>
    /\ ckpt.k = "int"

\* C11: a run that has passed the delta fetch ends only after every record
\* of the fetched set has had its task run to completion, each task after at
\* most 3 submission attempts.
C11_RunEndsAfterEveryTask ==
    (RunOver /\ cause \notin {"org", "fetch"})
        => /\ Len(tasks) = Len(actors)
           /\ \A i \in DOMAIN tasks :
                 tasks[i].pc = "done" /\ Len(tasks[i].calls) <= max_tries

\* C12: a fetched record without a name raises no exception and fails only
\* itself: the run ends normally, with the task of every record run to its
\* end and no createEvent call made for the nameless record.
C12_NamelessRecordNotFatal ==
    (RunOver /\ \E i \in DOMAIN actors : actors[i].name = None)
        => /\ pc = "done"
           /\ Len(tasks) = Len(actors)
           /\ \A i \in DOMAIN tasks :
                 /\ tasks[i].pc = "done"
                 /\ actors[i].name = None => tasks[i].calls = <<>>

\* The task has mapped its event (line 78).
Mapped(t) == t.event # NoEvent

\* C13: in every mapped event, when at least one of first_activity_date and
\* last_activity_date is present, first_seen is present and
\* first_seen <= last_seen; reversed dates come out swapped.
C13_TimestampsReconciled ==
    \A i \in DOMAIN tasks :
        Mapped(tasks[i]) =>
            LET a == actors[i]
                e == tasks[i].event
            IN  /\ (a.first_activity_date # 0 \/ a.last_activity_date # 0)
                      => /\ Truthy(e.first_seen)
                         /\ ~e.last_seen.none
                         /\ e.first_seen.v <= e.last_seen.v
                /\ (a.last_activity_date # 0
                      /\ a.last_activity_date < a.first_activity_date)
                      => /\ e.first_seen = IntValue(a.last_activity_date)
                         /\ e.last_seen = IntValue(a.first_activity_date)

\* C14: the threat level of every mapped event is 3 when the upper-cased
\* capability text contains BELOW or LOW, 1 when it otherwise contains ABOVE
\* or HIGH, and 2 in every other case, an absent capability included.
C14_ThreatLevelFromCapability ==
    \A i \in DOMAIN tasks :
        Mapped(tasks[i]) =>
            LET cap == actors[i].capability
                text == IF cap = None THEN <<>> ELSE upper(cap)
            IN  tasks[i].event.threat_level_id =
                    IF IsSubstr(BELOW, text) \/ IsSubstr(LOW, text) THEN 3
                    ELSE IF IsSubstr(ABOVE, text) \/ IsSubstr(HIGH, text) THEN 1
                    ELSE 2

\* C15: the since handed to the delta fetch is the persisted checkpoint
\* whenever the checkpoint file holds one; the lookback is handed over only
\* when there is none.
C15_SinceIsCheckpoint ==
    (pc = "fetched" /\ ckpt.k = "int") => start_get_events = ckpt.v

\* C16: of the tasks of one run that have the same display key, at most one
\* maps and submits an event.
C16_OneImportPerDisplayKey ==
    \A i, j \in DOMAIN tasks :
        ( /\ i # j
          /\ ~Line73Raises(actors[i])
          /\ ~Line73Raises(actors[j])
          /\ info_str(actors[i]) = info_str(actors[j]) )
        => ~(Mapped(tasks[i]) /\ Mapped(tasks[j]))

\* C17: a task whose submission was dropped, no attempt having succeeded,
\* leaves the checkpoint file as it is.
C17_AdvanceOnlyOnSuccess ==
    [][\A i \in DOMAIN tasks :
          ( /\ tasks[i].pc \in {"openw", "flush"}
            /\ tasks'[i].pc # tasks[i].pc
            /\ ~Succeeded(tasks[i].calls) )
          => ckpt' = ckpt]_vars

\* The task has performed the comparison of line 112.
Compared(t, act) ==
    /\ HasLmd(act)
    /\ t.pc \in {"openw", "flush"} \/ (t.pc = "done" /\ t.ret = "true")

\* C18: when a run with at least one fetched record has finished, the
\* checkpoint file holds a value greater than or equal to the
\* last_modified_date of every actor whose task compared it with the file.
C18_NoLostCheckpointUpdate ==
    (pc \in {"done", "raised"} /\ tasks # <<>>)
        => \A i \in DOMAIN tasks :
              Compared(tasks[i], actors[i])
                  => (ckpt.k = "int" /\ ckpt.v >= actors[i].lmd)

\* C19: whenever a task exists the alignment is over (both of its loops have
\* run out and the run stands at or after the fan-out), no step taken while
\* tasks exist creates, merges or restores a cluster or writes the
\* actor-to-cluster map, and the cluster tag of every mapped event is the
\* one that map holds for its actor.
C19_AlignmentBeforeFanOut ==
    [][tasks' # <<>> =>
          /\ pc' \in {"fanout", "done", "raised"}
          /\ todo' = <<>>
          /\ rtodo' = <<>>
          /\ actor_map' = actor_map
          /\ created' = created
          /\ restores' = restores
          /\ merges' = merges
          /\ \A i \in DOMAIN tasks' :
                Mapped(tasks'[i])
                    => tasks'[i].event.tag = cluster_tag(actors'[i], actor_map')]_vars

\* A task has mapped its event in a run whose alignment created one cluster
\* and restored another.
C19_Witness ==
    /\ pc = "fanout"
    /\ created > 0
    /\ restores # <<>>
    /\ \E i \in DOMAIN tasks :
          Mapped(tasks[i]) /\ tasks[i].event.tag # 0

\* C20: once the merge loop of the alignment has run, the elements of the
\* DetailRecord of every fetched actor that the map already held have been
\* merged into that actor's cluster.
C20_MappedActorsMerged ==
    (pc = "create" /\ created = 0)
        => \A i \in DOMAIN actors :
              (~NotMapped(actors[i], actor_map) /\ actors[i].det # "none")
                  => actor_map[actors[i].name].id \in merges

\* C21: an unmapped actor whose DetailRecord is missing or has no
\* description does not abort the run: once the run is over, the alignment
\* has not raised and the map holds an entry for that actor.
C21_MissingDescriptionNotFatal ==
    ( /\ RunOver
      /\ cause \notin {"org", "fetch"}
      /\ \A j \in DOMAIN actors : actors[j].name # None )
    => \A i \in DOMAIN actors :
          actors[i].det # "full"
              => (cause # "create" /\ MapKey(actors[i]) \in DOMAIN actor_map)

\* C22: a checkpoint file whose text is no integer never makes a run end
\* by an exception.
C22_MalformedCheckpointNotFatal ==
    pc = "aborted" => cause # "checkpoint"

\* C23: once the alignment is over, the map holds an entry for every
\* fetched actor under the key the mapper looks up, and every mapped event,
\* hence every event submitted, carries the tag of that entry's cluster and
\* not the tag made of the raw name.
C23_EventsCarryClusterTag ==
    /\ pc \in {"aligned", "ready", "fanout", "done", "raised"}
          => \A i \in DOMAIN actors : upper(actors[i].name) \in DOMAIN actor_map
    /\ \A i \in DOMAIN tasks :
          Mapped(tasks[i])
              => /\ tasks[i].event.tag # 0
                 /\ tasks[i].event.tag = actor_map[upper(actors[i].name)].id

\* The event of an actor whose name is not in upper case was accepted by the
\* target system, with the tag of the cluster the alignment created for it.
C23_Witness ==
    \E i \in DOMAIN tasks :
        /\ Succeeded(tasks[i].calls)
        /\ actors[i].name # upper(actors[i].name)
        /\ created > 0
        /\ tasks[i].event.tag # 0

\* C24: the Dedup Index holds the mark of a fetched actor only if an
\* add_event call for that actor's event has succeeded.
C24_MarkedOnlyAfterAccepted ==
    \A i \in DOMAIN tasks :
        written_key(actors[i]) \in already
            => \E j \in DOMAIN tasks :
                  /\ actors[j].name = actors[i].name
                  /\ Succeeded(tasks[j].calls)

\* C25: the task of every actor that has a name, whatever the shape of the
\* name, raises no error, and unless it skips the actor it maps an event.
C25_AnyNameShapeMapped ==
    \A i \in DOMAIN tasks :
        (actors[i].name # None /\ tasks[i].pc = "done")
            => /\ tasks[i].ret # "exc"
               /\ tasks[i].ret = "true" => Mapped(tasks[i])

====
